---- MODULE Spec2Model ----
(***************************************************************************)
(* Well-production forecasting pipeline: the sequence encoder, the dataset *)
(* abstraction, the batch assembler, the preprocessing pipeline and its    *)
(* exam variant (dataloader.py), and the training and evaluation loops     *)
(* (train.py).  Each component is a small state machine of its own with    *)
(* its own specification; the variables of the other components stay at    *)
(* their idle values.                                                      *)
(*                                                                         *)
(* Numbers.  The code divides floats; a quotient a/b is kept here as the   *)
(* pair [num |-> a, den |-> b], never evaluated, so that two quotients are *)
(* equal only when they were built from the same operands.  NaN is the     *)
(* integer -1; the quantities it stands among (hours, gas, condensate) are *)
(* never negative.                                                         *)
(***************************************************************************)
EXTENDS Integers, Sequences, FiniteSets, TLC

VARIABLES
    \* ---- WellDataset.__getitem__ / seq_tensor
    row,          \* the record read: [months, first6, last6, feat]
    train,        \* WellDataset.train
    exam,         \* WellDataset.exam
    sample,       \* the returned {'features','sequences','target'}
    pcItem,       \* "idle" | "done"
    \* ---- seq_collate
    batch,        \* the list of samples handed to seq_collate
    padded_batch, \* the returned {'features','sequences','target'}
    pcCol,        \* "idle" | "collated" | "raised"
    \* ---- preprocess / exam_loader
    train_file,   \* the raw train table
    exam_file,    \* the raw exam table
    ratio,        \* preprocess's validation fraction
    train_dataset, valid_dataset,   \* what preprocess returns
    exam_dataset, \* what exam_loader returns
    pcPre,        \* preprocess: "idle" | "done" | "raised"
    pcExam,       \* exam_loader: "idle" | "done"
    \* ---- train
    scheduler,    \* [patience, max_epoch, best_loss, num_bad_epoch]
    epoch,        \* epochs of the loop completed
    params,       \* the model's parameters: the number of the epoch that
                  \* produced them (0: as constructed, -1: another run's)
    param_file,   \* the checkpoint file: [exists, params]
    losses,       \* history: the validation loss of each epoch run
    saves,        \* history: whether each epoch wrote the checkpoint
    pcTrain,      \* "loop" | "restore" | "done" | "raised"
    \* ---- evaluate
    eval_dataset, \* the dataset's rows, in order
    batch_size,   \* the global batch_size
    batch_no,     \* batches of test_loader consumed
    predictions,  \* the list being built
    pcEval        \* "iter" | "returned"

itemVars == <<row, train, exam, sample, pcItem>>
colVars == <<batch, padded_batch, pcCol>>
preVars == <<train_file, exam_file, ratio, train_dataset, valid_dataset,
             exam_dataset, pcPre, pcExam>>
trainVars == <<scheduler, epoch, params, param_file, losses, saves, pcTrain>>
evalVars == <<eval_dataset, batch_size, batch_no, predictions, pcEval>>
vars == <<itemVars, colVars, preVars, trainVars, evalVars>>

\* ------------------------------------------------------------------ bounds
\* Month columns per record (36 in the data; the non-train horizon, 30 there,
\* is one month shorter here).
MaxMonths == 3
\* Largest hours value of a month.
MaxHours == 2

\* Samples in a batch, and month vectors in a sample's sequence.
MaxBatch == 3
MaxSeqLen == 2

\* Rows of the train table and of the exam table; values of the categorical
\* column; the validation fractions are k/RatioDen.
MaxTrainRows == 3
MaxExamRows == 2
MaxCat == 2
RatioDen == 5

\* Scheduler settings and the validation losses an epoch can report.
MaxEpochs == 4
MaxPatience == 2
MaxLoss == 3
\* Rows of the evaluated dataset, distinct rows, and the batch sizes.
MaxEvalRows == 4
MaxRowKinds == 2
MaxBatchSize == 3

\* --------------------------------------------------------------- constants
NaN == -1
\* seq_tensor's default n=(1e5, 1e4, 1e3)
GasDiv == 100000
CndDiv == 10000
HrsDiv == 1000
\* WellDataset.__init__'s gas_norm=1e5
gas_norm == 100000

\* ------------------------------------------------------------- arithmetic
isnan(x) == x = NaN

\* a * b on floats: NaN is absorbing.
Mul(a, b) == IF isnan(a) \/ isnan(b) THEN NaN ELSE a * b

\* a / b on floats, unevaluated.
Div(a, b) == IF isnan(a) \/ isnan(b) THEN [num |-> NaN, den |-> NaN]
                                     ELSE [num |-> a, den |-> b]

\* A float that is an integer value (torch.zeros entries, the rest counter).
Flt(a) == [num |-> a, den |-> 1]

\* ---------------------------------------------------------- seq_tensor
\* torch.zeros(1, 4)
ZeroPlaceholder == << <<Flt(0), Flt(0), Flt(0), Flt(0)>> >>

\* The vector appended for month j.
rates(gas, cnd, hrs, j, rest) ==
    << Div(gas[j], Mul(GasDiv, hrs[j])),
       Div(cnd[j], Mul(CndDiv, hrs[j])),
       Div(hrs[j], HrsDiv),
       Flt(rest) >>

\* The same with the rest counter never reset (the counter of all zero-hours
\* months so far).
RECURSIVE SeqLoopNoReset(_, _, _, _, _, _)
SeqLoopNoReset(gas, cnd, hrs, j, rest, sequences) ==
    IF j > Len(hrs) THEN sequences
    ELSE IF hrs[j] = 0
         THEN SeqLoopNoReset(gas, cnd, hrs, j + 1, rest + 1, sequences)
         ELSE SeqLoopNoReset(gas, cnd, hrs, j + 1, rest,
                             Append(sequences, rates(gas, cnd, hrs, j, rest)))

\* for j, h in enumerate(hrs): from month j on, with the loop's locals.
\* NaN == 0 is False in Python: a NaN month takes the else branch.
RECURSIVE SeqLoop(_, _, _, _, _, _)
SeqLoop(gas, cnd, hrs, j, rest, sequences) ==
    IF j > Len(hrs) THEN sequences
    ELSE IF hrs[j] = 0
         THEN SeqLoop(gas, cnd, hrs, j + 1, rest + 1, sequences)
         ELSE SeqLoop(gas, cnd, hrs, j + 1, 0,
                      Append(sequences, rates(gas, cnd, hrs, j, rest)))

seq_tensor(gas, cnd, hrs) ==
    IF isnan(hrs[1]) THEN ZeroPlaceholder
    ELSE SeqLoop(gas, cnd, hrs, 1, 0, <<>>)

\* ------------------------------------------------- WellDataset.__getitem__
\* One month of a record: its gas, condensate and hours cells.
HoursVals == {NaN} \cup (0 .. MaxHours)
MonthCells == { [gas |-> g, cnd |-> 2, hrs |-> h] : g \in {0, 3}, h \in HoursVals }

\* mth = 37 if self.train else 31; range(1, mth)
horizon(tr) == IF tr THEN MaxMonths ELSE MaxMonths - 1

column(r, field, tr) == [j \in 1 .. horizon(tr) |-> r.months[j][field]]

\* The column the target is read from.
target_name(empty_sequence) == IF empty_sequence THEN "first6" ELSE "last6"

WellDataset_getitem(r, tr, ex) ==
    LET gas == column(r, "gas", tr)
        cnd == column(r, "cnd", tr)
        hrs == column(r, "hrs", tr)
        sequences == seq_tensor(gas, cnd, hrs)
        empty_sequence == (Len(sequences) = 1)
        target == IF ~ex THEN Div(r[target_name(empty_sequence)], gas_norm)
                         ELSE Flt(0)
    IN [features |-> r.feat, sequences |-> sequences, target |-> target]

NoSample == [features |-> 0, sequences |-> <<>>, target |-> Flt(0)]

Rows == { [months |-> m, first6 |-> 7, last6 |-> 9, feat |-> 1] :
            m \in [1 .. MaxMonths -> MonthCells] }

ItemIdle ==
    /\ row = <<>>
    /\ train = FALSE /\ exam = FALSE
    /\ sample = NoSample
    /\ pcItem = "off"

PreIdle ==
    /\ train_file = <<>> /\ exam_file = <<>> /\ ratio = <<>>
    /\ train_dataset = <<>> /\ valid_dataset = <<>> /\ exam_dataset = <<>>
    /\ pcPre = "off" /\ pcExam = "off"

TrainIdle ==
    /\ scheduler = <<>> /\ epoch = 0 /\ params = 0 /\ param_file = <<>>
    /\ losses = <<>> /\ saves = <<>> /\ pcTrain = "off"

EvalIdle ==
    /\ eval_dataset = <<>> /\ batch_size = 0 /\ batch_no = 0
    /\ predictions = <<>> /\ pcEval = "off"

ColIdle ==
    /\ batch = <<>>
    /\ padded_batch = <<>>
    /\ pcCol = "off"

InitItem ==
    /\ ColIdle /\ PreIdle /\ TrainIdle /\ EvalIdle
    /\ row \in Rows
    \* WellDataset(.., train=True) | (.., train=False) | (.., train=False, exam=True)
    /\ \E mode \in {<<TRUE, FALSE>>, <<FALSE, FALSE>>, <<FALSE, TRUE>>} :
            train = mode[1] /\ exam = mode[2]
    /\ sample = NoSample
    /\ pcItem = "idle"

GetItem ==
    /\ pcItem = "idle"
    /\ sample' = WellDataset_getitem(row, train, exam)
    /\ pcItem' = "done"
    /\ UNCHANGED <<row, train, exam, colVars, preVars, trainVars, evalVars>>

NextItem == GetItem

SpecItem == InitItem /\ [][NextItem]_vars

\* ------------------------------------------------ properties of the encoder
\* The hours array __getitem__ hands to seq_tensor.
hrsRead == column(row, "hrs", train)
gasRead == column(row, "gas", train)
cndRead == column(row, "cnd", train)

NoMissing(hrs) == \A j \in 1 .. Len(hrs) : ~isnan(hrs[j])
NonzeroMonths(hrs) == {j \in 1 .. Len(hrs) : hrs[j] # 0}
AllZero(hrs) == NonzeroMonths(hrs) = {}

\* The k-th smallest member of a set of months.
KthMonth(S, k) == CHOOSE m \in S : Cardinality({i \in S : i < m}) = k - 1

\* Zero-hours months immediately before month m, back to the previous
\* nonzero-hours month or to the start.
ZeroRunBefore(hrs, m) ==
    Cardinality({i \in 1 .. m - 1 : \A q \in i .. m - 1 : hrs[q] = 0})

IsPrefix(s, t) == Len(s) <= Len(t) /\ \A i \in 1 .. Len(s) : s[i] = t[i]

\* C3: a non-exam record's target is the first-6-months column exactly when
\* its sequence is the zero placeholder, and the last-6-months column whenever
\* a month vector was emitted; in exam mode the target is the zero placeholder.
C3_TargetByPlaceholder ==
    pcItem = "done" =>
        IF exam THEN sample.target = Flt(0)
        ELSE (\A j \in 2 .. Len(hrsRead) : ~isnan(hrsRead[j])) =>
             /\ (sample.sequences = ZeroPlaceholder
                    <=> sample.target = Div(row.first6, gas_norm))
             /\ (sample.sequences # ZeroPlaceholder /\ Len(sample.sequences) >= 1
                    => sample.target = Div(row.last6, gas_norm))

\* C4: first hours entry present and every month zero: the result is the
\* length-1 all-zero placeholder; and no input gives a length-0 sequence.
C4_AllZeroGivesPlaceholder ==
    pcItem = "done" =>
        /\ (~isnan(hrsRead[1]) /\ AllZero(hrsRead)
               => sample.sequences = ZeroPlaceholder)
        /\ Len(sample.sequences) # 0

\* C5: no missing entry and some nonzero-hours month: one vector per
\* nonzero-hours month, in month order; the rest count of each is the zero run
\* immediately before its month; the encoding of every prefix of the horizon
\* is a prefix of the encoding (no month after a vector affects it, and a
\* trailing zero run adds nothing).
C5_LengthOrderRest ==
    pcItem = "done" /\ NoMissing(hrsRead) /\ ~AllZero(hrsRead) =>
        LET nz == NonzeroMonths(hrsRead)
            s == sample.sequences
        IN /\ Len(s) = Cardinality(nz)
           /\ \A k \in 1 .. Len(s) :
                LET m == KthMonth(nz, k)
                IN /\ s[k][1] = Div(gasRead[m], GasDiv * hrsRead[m])
                   /\ s[k][2] = Div(cndRead[m], CndDiv * hrsRead[m])
                   /\ s[k][3] = Div(hrsRead[m], HrsDiv)
                   /\ s[k][4] = Flt(ZeroRunBefore(hrsRead, m))
           /\ \A p \in 1 .. Len(hrsRead) :
                IsPrefix(seq_tensor(SubSeq(gasRead, 1, p), SubSeq(cndRead, 1, p),
                                    SubSeq(hrsRead, 1, p)), s)

\* A record with a leading zero run, two active months separated by nothing,
\* and a trailing zero-hours month, encoded.
C5_Witness ==
    /\ pcItem = "done" /\ train /\ NoMissing(hrsRead)
    /\ hrsRead[1] = 0 /\ hrsRead[2] # 0 /\ hrsRead[MaxMonths] = 0
    /\ Len(sample.sequences) = 1
    /\ sample.sequences[1][4] = Flt(1)

\* ------------------------------------------------------------ seq_collate
\* A month vector is a token here: 0 is the all-zero vector (the placeholder's
\* only row, and what padding fills with), 1 any other vector.
Tokens == {0, 1}
ZeroToken == 0

RECURSIVE SeqsOfLen(_)
SeqsOfLen(n) ==
    IF n = 0 THEN {<<>>}
    ELSE {Append(q, t) : q \in SeqsOfLen(n - 1), t \in Tokens}

\* Sequences a sample can carry: length 0 is torch.tensor([]).
SampleSeqs == UNION {SeqsOfLen(n) : n \in 0 .. MaxSeqLen}

Max(S) == CHOOSE x \in S : \A y \in S : y <= x

\* lengths taken after padding instead of before.
lengths_after_padding(sequences) ==
    [i \in 1 .. Len(sequences) |->
        Max({Len(sequences[k]) : k \in 1 .. Len(sequences)})]

\* lengths = [len(s) for s in sequences]
lengths_of(sequences) == [i \in 1 .. Len(sequences) |-> Len(sequences[i])]

\* torch.nn.utils.rnn.pad_sequence(sequences, batch_first=True)
pad_sequence(sequences) ==
    LET T == Max({Len(sequences[k]) : k \in 1 .. Len(sequences)})
    IN [i \in 1 .. Len(sequences) |->
          [t \in 1 .. T |-> IF t <= Len(sequences[i]) THEN sequences[i][t]
                                                     ELSE ZeroToken]]

Perms(n) == {f \in [1 .. n -> 1 .. n] : \A i, k \in 1 .. n : f[i] = f[k] => i = k}

\* torch.sort(lengths, descending=True): the orders it may return (ties in
\* any order).
SortedIndices(lengths) ==
    {f \in Perms(Len(lengths)) :
        \A r \in 1 .. Len(lengths) - 1 : lengths[f[r]] >= lengths[f[r + 1]]}

\* Concatenation of a sequence of sequences.
RECURSIVE Flatten(_)
Flatten(ss) == IF ss = <<>> THEN <<>> ELSE Head(ss) \o Flatten(Tail(ss))

\* The entries of f at the positions 1..n, as a sequence.
FirstN(f, n) == [r \in 1 .. n |-> f[r]]

\* pack_padded_sequence(padded, lengths, batch_first=True,
\* enforce_sorted=False) for the sort order sorted_indices: rows reordered by
\* decreasing length, then stored time step by time step, each step holding
\* the rows still running.
pack_padded_sequence(padded, lengths, sorted_indices) ==
    LET B == Len(lengths)
        T == Max({lengths[i] : i \in 1 .. B})
        batch_sizes == [t \in 1 .. T |->
                          Cardinality({i \in 1 .. B : lengths[i] >= t})]
        data == Flatten([t \in 1 .. T |->
                          FirstN([r \in 1 .. B |-> padded[sorted_indices[r]][t]],
                                 batch_sizes[t])])
        unsorted_indices == [i \in 1 .. B |->
                               CHOOSE r \in 1 .. B : sorted_indices[r] = i]
    IN [data |-> data, batch_sizes |-> batch_sizes,
        sorted_indices |-> sorted_indices, unsorted_indices |-> unsorted_indices]

\* The i-th sample of a batch: its features and target are told apart from
\* the other samples' by i.
Sample(i, q) == [features |-> 10 + i, sequences |-> q, target |-> 20 + i]

InitCollate ==
    /\ ItemIdle /\ PreIdle /\ TrainIdle /\ EvalIdle
    /\ \E n \in 1 .. MaxBatch : \E qs \in [1 .. n -> SampleSeqs] :
          batch = [i \in 1 .. n |-> Sample(i, qs[i])]
    /\ padded_batch = <<>>
    /\ pcCol = "idle"

\* pack_padded_sequence raises on a length <= 0 (and pad_sequence on the 1-d
\* empty tensor among 2-d ones): nothing is returned.
CollateRaises ==
    /\ pcCol = "idle"
    /\ \E i \in 1 .. Len(batch) : Len(batch[i].sequences) = 0
    /\ pcCol' = "raised"
    /\ UNCHANGED <<batch, padded_batch, itemVars, preVars, trainVars, evalVars>>

seq_collate ==
    /\ pcCol = "idle"
    /\ \A i \in 1 .. Len(batch) : Len(batch[i].sequences) > 0
    /\ LET features == [i \in 1 .. Len(batch) |-> batch[i].features]
           sequences == [i \in 1 .. Len(batch) |-> batch[i].sequences]
           targets == [i \in 1 .. Len(batch) |-> batch[i].target]
           lengths == lengths_of(sequences)
           padded_sequences == pad_sequence(sequences)
       IN \E sorted_indices \in SortedIndices(lengths) :
            padded_batch' =
              [features |-> features,
               sequences |-> pack_padded_sequence(padded_sequences, lengths,
                                                  sorted_indices),
               target |-> targets]
    /\ pcCol' = "collated"
    /\ UNCHANGED <<batch, itemVars, preVars, trainVars, evalVars>>

NextCollate == seq_collate \/ CollateRaises

SpecCollate == InitCollate /\ [][NextCollate]_vars

\* ------------------------------------------- properties of the batch assembler
\* torch's pad_packed_sequence, the reading of a packed structure: the
\* length-sorted rows rebuilt from data and batch_sizes (zero beyond a row's
\* length), then reordered by unsorted_indices.
PackedRowLen(packed, r) ==
    Cardinality({t \in 1 .. Len(packed.batch_sizes) : packed.batch_sizes[t] >= r})

PackedOffset(packed, t) ==
    LET Sum[k \in 0 .. t - 1] ==
            IF k = 0 THEN 0 ELSE Sum[k - 1] + packed.batch_sizes[k]
    IN Sum[t - 1]

PackedRow(packed, r) ==
    [t \in 1 .. Len(packed.batch_sizes) |->
        IF packed.batch_sizes[t] >= r THEN packed.data[PackedOffset(packed, t) + r]
                                      ELSE ZeroToken]

Unsorted(packed, i) ==
    [length |-> PackedRowLen(packed, packed.unsorted_indices[i]),
     content |-> PackedRow(packed, packed.unsorted_indices[i])]

\* C10: features and targets are stacked in batch order, and reading the
\* packed structure back through its unsort order gives, at every position i,
\* sample i's length and sample i's sequence followed by zero padding.
C10_UnsortRestoresBatch ==
    pcCol = "collated" =>
        /\ Len(padded_batch.features) = Len(batch)
        /\ Len(padded_batch.target) = Len(batch)
        /\ \A i \in 1 .. Len(batch) :
             /\ padded_batch.features[i] = batch[i].features
             /\ padded_batch.target[i] = batch[i].target
             /\ Unsorted(padded_batch.sequences, i).length = Len(batch[i].sequences)
             /\ LET got == Unsorted(padded_batch.sequences, i).content
                IN \A t \in 1 .. Len(got) :
                     got[t] = IF t <= Len(batch[i].sequences)
                              THEN batch[i].sequences[t] ELSE ZeroToken

\* A batch of three given shortest first, so that sorting by length moves
\* every sample (a 3-cycle or a swap), collated.
C10_Witness ==
    /\ pcCol = "collated"
    /\ Len(batch) = 3
    /\ Len(batch[1].sequences) < Len(batch[2].sequences)
    /\ batch[3].sequences = <<1>>
    /\ padded_batch.sequences.sorted_indices[1] = 2
    /\ padded_batch.sequences.sorted_indices # padded_batch.sequences.unsorted_indices

\* ------------------------------------------------ preprocess, exam_loader
\* A table (pandas.DataFrame): its index labels, its rows, its column names.
\* A row carries where it came from (src, pos) and its categorical cell; the
\* numeric cells, which imputation and normalisation rewrite in place, are
\* not carried.  A column name is <<name, 0>>, or <<"TYPE", c>> for the
\* one-hot column of category c.  Category 0 is a missing cell.
Missing == 0
Cats == 1 .. MaxCat

Col(name) == <<name, 0>>
RemoveFeats == {Col("API")}
StringFeat == "TYPE"
TrainColumns == {Col("API"), Col("DEPTH"), Col(StringFeat), Col("PRICE_$"),
                 Col("GAS_MONTH_1"), Col("CND_MONTH_1"), Col("HRS_MONTH_1"),
                 Col("First 6 mo. Avg. GAS (Mcf)"), Col("Last 6 mo. Avg. GAS (Mcf)")}
ExamColumns == {Col("API"), Col("DEPTH"), Col(StringFeat),
                Col("GAS_MONTH_1"), Col("CND_MONTH_1"), Col("HRS_MONTH_1")}

\* '$' in col
HasDollar(c) == c[1] \in {"PRICE_$"}
\* 'MONTH' in f or 'mo.' in f
MonthMarked(c) == c[1] \in {"GAS_MONTH_1", "CND_MONTH_1", "HRS_MONTH_1",
                            "First 6 mo. Avg. GAS (Mcf)", "Last 6 mo. Avg. GAS (Mcf)"}

RangeIndex(n) == [i \in 1 .. n |-> i - 1]

Table(src, cats, columns) ==
    [index |-> RangeIndex(Len(cats)),
     rows |-> [i \in 1 .. Len(cats) |-> [src |-> src, pos |-> i - 1, cat |-> cats[i]]],
     columns |-> columns]

\* The rows at the positions ps (a sequence of positions), in that order.
Take(df, ps) ==
    [df EXCEPT !.index = [k \in 1 .. Len(ps) |-> df.index[ps[k]]],
               !.rows = [k \in 1 .. Len(ps) |-> df.rows[ps[k]]]]

\* The positions 1..n that satisfy keep, ascending.
RECURSIVE KeptPositions(_, _)
KeptPositions(keep, n) ==
    IF n = 0 THEN <<>>
    ELSE IF n \in keep THEN Append(KeptPositions(keep, n - 1), n)
                       ELSE KeptPositions(keep, n - 1)

\* df.drop(columns, axis=1)
drop_columns(df, columns) == [df EXCEPT !.columns = df.columns \ columns]

\* df.drop(labels): every row whose label is among labels goes.
drop(df, labels) ==
    Take(df, KeptPositions({i \in 1 .. Len(df.index) : df.index[i] \notin labels},
                           Len(df.index)))

\* df.reset_index(drop=True)
reset_index(df) == [df EXCEPT !.index = RangeIndex(Len(df.rows))]

\* pd.concat([a, b])
concat(a, b) == [index |-> a.index \o b.index, rows |-> a.rows \o b.rows,
                 columns |-> a.columns \cup b.columns]

\* pd.get_dummies(df, columns=string_feats): one column per category present;
\* a missing cell gets none.
get_dummies(df) ==
    [df EXCEPT !.columns = (df.columns \ {Col(StringFeat)}) \cup
        {<<StringFeat, df.rows[i].cat>> :
            i \in {k \in 1 .. Len(df.rows) : df.rows[k].cat # Missing}}]

\* SimpleImputer(strategy='most_frequent'): the most frequent category, the
\* smallest among equals, fills the missing cells.
most_frequent(df) ==
    LET Count(c) == Cardinality({i \in 1 .. Len(df.rows) : df.rows[i].cat = c})
        present == {c \in Cats : Count(c) > 0}
    IN CHOOSE c \in present :
         \A d \in present : Count(c) > Count(d) \/ (Count(c) = Count(d) /\ c <= d)

impute(df) ==
    [df EXCEPT !.rows = [i \in 1 .. Len(df.rows) |->
        IF df.rows[i].cat = Missing
        THEN [df.rows[i] EXCEPT !.cat = most_frequent(df)] ELSE df.rows[i]]]

augment_data(df) == df

\* [f for f in dataset.columns if ('MONTH' not in f and 'mo.' not in f)]
total_features(df) == {c \in df.columns : ~MonthMarked(c)}

\* Python's round() of n * frac: half to even.
RoundFrac(n, frac) ==
    LET q == (n * frac.num) \div frac.den
        r == (n * frac.num) % frac.den
    IN IF 2 * r < frac.den THEN q
       ELSE IF 2 * r > frac.den THEN q + 1
       ELSE IF q % 2 = 0 THEN q ELSE q + 1

\* DataFrame.sample(frac=ratio): the draws it can make, each a sequence of
\* distinct positions.
SampleDraws(n, k) ==
    {ps \in [1 .. k -> 1 .. n] : \A i, m \in 1 .. k : ps[i] = ps[m] => i = m}

WellDataset(dataset, features, tr, ex) ==
    [dataset |-> dataset, features |-> features, train |-> tr, exam |-> ex]

CatSeqs(maxRows) == UNION {[1 .. n -> {Missing} \cup Cats] : n \in 1 .. maxRows}

InitPre ==
    /\ ItemIdle /\ ColIdle /\ TrainIdle /\ EvalIdle
    /\ \E cats \in CatSeqs(MaxTrainRows) : train_file = Table("train", cats, TrainColumns)
    /\ \E cats \in CatSeqs(MaxExamRows) : exam_file = Table("exam", cats, ExamColumns)
    /\ ratio \in {[num |-> a, den |-> RatioDen] : a \in 0 .. RatioDen}
    /\ train_dataset = <<>> /\ valid_dataset = <<>> /\ exam_dataset = <<>>
    /\ pcPre = "idle" /\ pcExam = "idle"

\* The categorical column is all missing: the imputer has no most frequent
\* value to fit and the assignment fails.
PreprocessRaises ==
    /\ pcPre = "idle"
    /\ \A i \in 1 .. Len(train_file.rows) : train_file.rows[i].cat = Missing
    /\ pcPre' = "raised"
    /\ UNCHANGED <<train_file, exam_file, ratio, train_dataset, valid_dataset,
                   exam_dataset, pcExam, itemVars, colVars, trainVars, evalVars>>

\* valid_data = dataset.sample(frac=ratio).reset_index(drop=True), for the
\* draw ps; train_data = dataset.drop(valid_data.index).reset_index(drop=True)
split(dataset, ps) ==
    LET valid_data == reset_index(Take(dataset, ps))
        train_data == reset_index(drop(dataset, {valid_data.index[i] :
                                                   i \in 1 .. Len(valid_data.index)}))
    IN [train |-> train_data, valid |-> valid_data]

preprocess ==
    /\ pcPre = "idle"
    /\ \E i \in 1 .. Len(train_file.rows) : train_file.rows[i].cat # Missing
    /\ LET dropped == drop_columns(train_file, RemoveFeats)
           dataset == augment_data(get_dummies(impute(dropped)))
           feats == total_features(dataset)
           n == Len(dataset.rows)
       IN \E ps \in SampleDraws(n, RoundFrac(n, ratio)) :
            /\ train_dataset' = WellDataset(split(dataset, ps).train, feats, TRUE, FALSE)
            /\ valid_dataset' = WellDataset(split(dataset, ps).valid, feats, FALSE, FALSE)
    /\ pcPre' = "done"
    /\ UNCHANGED <<train_file, exam_file, ratio, exam_dataset, pcExam,
                   itemVars, colVars, trainVars, evalVars>>

\* dataset.drop(train_index).reset_index(drop=True) on the joint table
drop_train_index(dataset, train_index) ==
    reset_index(drop(dataset, {train_index[i] : i \in 1 .. Len(train_index)}))

exam_loader ==
    /\ pcExam = "idle"
    /\ LET train_data == drop_columns(train_file, RemoveFeats)
           exam_data == drop_columns(exam_file, RemoveFeats)
           train_index == train_data.index
           joint == augment_data(get_dummies(reset_index(concat(exam_data, train_data))))
           kept == drop_train_index(joint, train_index)
           decision_feats == {c \in kept.columns : HasDollar(c)}
           dataset == drop_columns(kept, decision_feats)
       IN exam_dataset' = WellDataset(dataset, total_features(dataset), FALSE, TRUE)
    /\ pcExam' = "done"
    /\ UNCHANGED <<train_file, exam_file, ratio, train_dataset, valid_dataset,
                   pcPre, itemVars, colVars, trainVars, evalVars>>

NextPre == preprocess \/ PreprocessRaises \/ exam_loader

SpecPre == InitPre /\ [][NextPre]_vars

\* ------------------------------------------------ properties of the pipeline
RowId(r) == <<r.src, r.pos>>
RowIds(df) == {RowId(df.rows[i]) : i \in 1 .. Len(df.rows)}

\* C1: the train and validation partitions are disjoint, their sizes sum to
\* the input row count, and every input row is in exactly one of them.
C1_PartitionsDisjointAndCover ==
    pcPre = "done" =>
        LET tr == train_dataset.dataset
            va == valid_dataset.dataset
        IN /\ Len(tr.rows) + Len(va.rows) = Len(train_file.rows)
           /\ RowIds(tr) \cap RowIds(va) = {}
           /\ RowIds(tr) \cup RowIds(va) = RowIds(train_file)

\* C2: the exam dataset holds exactly the exam rows, in their order, indexed
\* 0..E-1, and no train row.
C2_ExamRowsOnly ==
    pcExam = "done" =>
        LET ds == exam_dataset.dataset
        IN /\ ds.index = RangeIndex(Len(exam_file.rows))
           /\ Len(ds.rows) = Len(exam_file.rows)
           /\ \A i \in 1 .. Len(ds.rows) : RowId(ds.rows[i]) = <<"exam", i - 1>>

\* C9: without the '$' columns, the exam dataset's feature columns are the
\* train dataset's feature columns.
C9_SameFeatureColumns ==
    pcPre = "done" /\ pcExam = "done" =>
        {c \in exam_dataset.features : ~HasDollar(c)}
            = {c \in train_dataset.features : ~HasDollar(c)}

\* ------------------------------------------------------------------ train
\* Validation losses are 1..MaxLoss; the scheduler's best loss starts above
\* them all.
Losses == 1 .. MaxLoss
Infinity == MaxLoss + 1

\* Scheduler(patience, max_epoch) as constructed.
Scheduler(patience, max_epoch) ==
    [patience |-> patience, max_epoch |-> max_epoch,
     best_loss |-> Infinity, num_bad_epoch |-> 0]

\* scheduler.step(valid_loss): an improvement on the best loss resets the
\* bad-epoch counter, anything else increments it.
step(s, valid_loss) ==
    IF valid_loss < s.best_loss
    THEN [s EXCEPT !.best_loss = valid_loss, !.num_bad_epoch = 0]
    ELSE [s EXCEPT !.num_bad_epoch = s.num_bad_epoch + 1]

\* Saving in every epoch that does not stop the loop.
checkpoint_decision_save_unless_stop(s) ==
    IF s.num_bad_epoch # s.patience THEN "save" ELSE "break"

\* if scheduler.num_bad_epoch == 0: save
\* elif scheduler.num_bad_epoch == scheduler.patience: break
checkpoint_decision(s) ==
    IF s.num_bad_epoch = 0 THEN "save"
    ELSE IF s.num_bad_epoch = s.patience THEN "break"
    ELSE "continue"

NoFile == [exists |-> FALSE, params |-> 0]
StaleFile == [exists |-> TRUE, params |-> -1]

InitTrain ==
    /\ ItemIdle /\ ColIdle /\ PreIdle /\ EvalIdle
    /\ \E patience \in 0 .. MaxPatience, max_epoch \in 0 .. MaxEpochs :
          scheduler = Scheduler(patience, max_epoch)
    /\ epoch = 0
    /\ params = 0
    \* save_dir is new for the run, or './saved_params/debug' used before
    /\ param_file \in {NoFile, StaleFile}
    /\ losses = <<>>
    /\ saves = <<>>
    /\ pcTrain = "loop"

\* One pass of the loop body: train, validate, scheduler.step, then the
\* checkpoint decision.
Epoch ==
    /\ pcTrain = "loop"
    /\ epoch < scheduler.max_epoch
    /\ \E valid_loss \in Losses :
         LET s == step(scheduler, valid_loss)
             d == checkpoint_decision(s)
         IN /\ scheduler' = s
            /\ params' = epoch + 1
            /\ param_file' = IF d = "save" THEN [exists |-> TRUE, params |-> epoch + 1]
                                           ELSE param_file
            /\ pcTrain' = IF d = "break" THEN "restore" ELSE "loop"
            /\ losses' = Append(losses, valid_loss)
            /\ saves' = Append(saves, d = "save")
    /\ epoch' = epoch + 1
    /\ UNCHANGED <<itemVars, colVars, preVars, evalVars>>

\* range(scheduler.max_epoch) is exhausted.
LoopEnd ==
    /\ pcTrain = "loop"
    /\ epoch = scheduler.max_epoch
    /\ pcTrain' = "restore"
    /\ UNCHANGED <<scheduler, epoch, params, param_file, losses, saves,
                   itemVars, colVars, preVars, evalVars>>

\* model.load_state_dict(torch.load(param_dir))
Restore ==
    /\ pcTrain = "restore"
    /\ param_file.exists
    /\ params' = param_file.params
    /\ pcTrain' = "done"
    /\ UNCHANGED <<scheduler, epoch, param_file, losses, saves,
                   itemVars, colVars, preVars, evalVars>>

\* torch.load on a path that does not exist.
RestoreRaises ==
    /\ pcTrain = "restore"
    /\ ~param_file.exists
    /\ pcTrain' = "raised"
    /\ UNCHANGED <<scheduler, epoch, params, param_file, losses, saves,
                   itemVars, colVars, preVars, evalVars>>

NextTrain == Epoch \/ LoopEnd \/ Restore \/ RestoreRaises

SpecTrain == InitTrain /\ [][NextTrain]_vars

\* --------------------------------------------- properties of the training loop
\* Epoch e's validation loss is below that of every earlier epoch.
Improved(h, e) == \A k \in 1 .. e - 1 : h[e] < h[k]

\* The epoch with the lowest validation loss (the first of them).
BestEpoch(h) ==
    CHOOSE e \in 1 .. Len(h) :
        /\ \A k \in 1 .. Len(h) : h[e] <= h[k]
        /\ \A k \in 1 .. e - 1 : h[e] < h[k]

\* Consecutive non-improving epochs ending with epoch e.
BadCount(h, e) ==
    Cardinality({k \in 1 .. e : \A q \in k .. e : ~Improved(h, q)})

\* C7: the checkpoint is written in exactly the epochs whose validation loss
\* improved on the best so far; so it always holds the parameters of the epoch
\* with the lowest validation loss, and those are the parameters the model
\* has once the checkpoint is reloaded after the loop.
C7_CheckpointIsBestEpoch ==
    /\ \A e \in 1 .. Len(losses) : saves[e] <=> Improved(losses, e)
    /\ Len(losses) >= 1 =>
          /\ param_file = [exists |-> TRUE, params |-> BestEpoch(losses)]
          /\ pcTrain = "done" => params = BestEpoch(losses)

\* A run stopped early, two epochs after its best one, with the checkpoint
\* reloaded.
C7_Witness ==
    /\ pcTrain = "done"
    /\ Len(losses) = 4 /\ scheduler.max_epoch > 4 - 1
    /\ losses[2] < losses[1] /\ losses[3] >= losses[2] /\ losses[4] >= losses[2]
    /\ scheduler.num_bad_epoch = scheduler.patience
    /\ params = 2

\* C8: for every patience >= 0 and max_epoch >= 0, no epoch runs once the
\* count of consecutive non-improving epochs has reached patience; the loop
\* ends right after the first epoch at which it does, and otherwise after
\* exactly max_epoch epochs.
C8_StopsWhenPatienceReached ==
    /\ \A e \in 1 .. Len(losses) - 1 : BadCount(losses, e) # scheduler.patience
    /\ Len(losses) <= scheduler.max_epoch
    /\ pcTrain # "loop" =>
          \/ Len(losses) = scheduler.max_epoch
          \/ Len(losses) >= 1 /\ BadCount(losses, Len(losses)) = scheduler.patience

\* The same for patience >= 1, where the code does follow the rule.
StopRuleForPositivePatience == scheduler.patience >= 1 => C8_StopsWhenPatienceReached

\* --------------------------------------------------------------- evaluate
\* model(data).view(-1): one scalar per sample of the batch, in batch order.
ModelOut(r) == 2 * r + 1
OutScale == 100000

\* DataLoader(..., drop_last=True): the final partial batch is not yielded.
test_loader_drop_last(dataset, B) ==
    [b \in 1 .. (Len(dataset) \div B) |-> SubSeq(dataset, (b - 1) * B + 1, b * B)]

\* DataLoader(dataset, batch_size=B, shuffle=False): the batches it yields.
test_loader(dataset, B) ==
    [b \in 1 .. ((Len(dataset) + B - 1) \div B) |->
        SubSeq(dataset, (b - 1) * B + 1,
               IF b * B <= Len(dataset) THEN b * B ELSE Len(dataset))]

InitEval ==
    /\ ItemIdle /\ ColIdle /\ PreIdle /\ TrainIdle
    /\ eval_dataset \in UNION {[1 .. n -> 1 .. MaxRowKinds] : n \in 0 .. MaxEvalRows}
    /\ batch_size \in 1 .. MaxBatchSize
    /\ batch_no = 0
    /\ predictions = <<>>
    /\ pcEval = "iter"

\* One pass of the loop body: the next batch through the model, its outputs
\* scaled and appended.
EvalBatch ==
    /\ pcEval = "iter"
    /\ batch_no < Len(test_loader(eval_dataset, batch_size))
    /\ LET samples == test_loader(eval_dataset, batch_size)[batch_no + 1]
           production == [i \in 1 .. Len(samples) |-> ModelOut(samples[i])]
       IN predictions' = predictions \o
                           [i \in 1 .. Len(production) |-> production[i] * OutScale]
    /\ batch_no' = batch_no + 1
    /\ UNCHANGED <<eval_dataset, batch_size, pcEval,
                   itemVars, colVars, preVars, trainVars>>

EvalReturn ==
    /\ pcEval = "iter"
    /\ batch_no = Len(test_loader(eval_dataset, batch_size))
    /\ pcEval' = "returned"
    /\ UNCHANGED <<eval_dataset, batch_size, batch_no, predictions,
                   itemVars, colVars, preVars, trainVars>>

NextEval == EvalBatch \/ EvalReturn

SpecEval == InitEval /\ [][NextEval]_vars

\* ------------------------------------------ properties of the evaluation loop
\* C6: evaluate returns one prediction per dataset row, the i-th being the
\* (scaled) model output for the i-th row.
C6_PredictionsInRowOrder ==
    pcEval = "returned" =>
        /\ Len(predictions) = Len(eval_dataset)
        /\ \A i \in 1 .. Len(eval_dataset) :
             predictions[i] = ModelOut(eval_dataset[i]) * OutScale

\* Four rows, not all alike, evaluated in batches of three: one full batch
\* and a final partial one.
C6_Witness ==
    /\ pcEval = "returned"
    /\ Len(eval_dataset) = 4 /\ batch_size = 3 /\ batch_no = 2
    /\ eval_dataset[1] # eval_dataset[4]
    /\ Len(predictions) = 4

====
